---- MODULE Spec2Model ----
(***************************************************************************)
(* State-machine model of the quiz engines of the DET trainer              *)
(* (components/Activities: Timer, RealWordGame, PhotoGame, FillBlankGame,  *)
(* CompleteTextGame; App: FlashcardsActivity; services/geminiService).     *)
(*                                                                         *)
(* One React event (a click, a key stroke, an interval tick, the           *)
(* completion of an awaited request) is one action: the handler, the       *)
(* re-render it causes and the effects of that render run to completion    *)
(* before the next event is taken, as in the browser's single thread.      *)
(* A component that is not rendered has no timer: mounting <Timer> again   *)
(* starts it again from its duration.                                      *)
(***************************************************************************)
EXTENDS Integers, Sequences, FiniteSets, TLC

VARIABLES
    \* ---- static vocabulary (module data), shared by every activity
    realWords,      \* the real-word list, in its current order
    fakeWords,      \* the non-word list, in its current order
    \* ---- RealWordGame
    words,          \* the session's items: <<[text, isReal], ...>>
    currentIndex,   \* 0-based index of the presented item
    score,
    gameOver,
    userResults,    \* <<[word, isReal, correct], ...>>
    rwTimeLeft,     \* RealWordGame.timeLeft, in ticks of 10 ms
    judgments,      \* history: per recorded item "yes", "no" or "none" (countdown)
    \* ---- PhotoGame
    text,           \* the composed text, represented by text.length
    stage,          \* "writing" | "evaluating" | "results" | "timeout"
    result,         \* "null" before any evaluation, else the evaluation received
    photoTimeLeft,  \* timeLeft of the <Timer duration={60}> of the writing view
    evalLog,        \* history: who invoked evaluatePhotoDescription, in order
    photoEvent,     \* history: the last PhotoGame event
    \* ---- FillBlankGame
    data,           \* NoData or [sentence, missingWord]
    userInput,
    feedback,       \* "none" | "correct" | "incorrect"
    fbLoading,      \* FillBlankGame.loading
    fbPending,      \* a generateFillInBlank request is in flight
    fbTimeLeft,     \* timeLeft of the <Timer duration={20}>
    fbEvent,        \* history: the last FillBlankGame event
    \* ---- CompleteTextGame
    tokens,         \* <<[fullWord, prefix, isBlank, userAnswer (, isCorrect)], ...>>
    topic,
    ctLoading,      \* CompleteTextGame.loading
    gameState,      \* "playing" | "review"
    ctPending,      \* a generateParagraphTask request is in flight
    ctTimeLeft,     \* timeLeft of the <Timer> of the playing view
    ctService,      \* history: how the last paragraph request ended
    ctEvent,        \* history: the last CompleteTextGame event
    \* ---- FlashcardsActivity and the knownWords of its parent
    category,       \* "null" | "general" | "transitions" | "photo"
    fcIndex,        \* FlashcardsActivity.index
    flipped,
    cardDetails,    \* NoDetails or [for, translation, example]
    fcLoading,      \* FlashcardsActivity.loading
    isDeckFinished,
    knownWords,     \* AuthenticatedApp.knownWords, in the order marked
    fcRequests,     \* the words of the getWordDetails requests in flight
    fcTimers,       \* the pending setTimeout callbacks: the index and deck.length of each
    \* ---- App, LoginScreen and AuthenticatedApp
    user,           \* App.user: NoUser or the name logged in
    loginInput,     \* LoginScreen.input
    storage,        \* localStorage: [currentUser, words, days]
    currentView,    \* AuthenticatedApp.currentView, "none" while logged out
    completedDays,  \* AuthenticatedApp.completedDays, in the order ticked
    orphans,        \* the activities of which an unmounted instance has a
                    \* content-service request in flight
    \* ---- a <Timer> against the wall clock, in phases of a second
    timerDuration,  \* the duration prop; 0 while no <Timer> is watched
    timerTimeLeft,  \* Timer.timeLeft
    timerAge,       \* the phases since the pending setInterval was set
    timerElapsed,   \* the phases since the <Timer> was mounted
    timerFinished   \* onFinish has been called

rwVars    == <<words, currentIndex, score, gameOver, userResults, rwTimeLeft, judgments>>
photoVars == <<text, stage, result, photoTimeLeft, evalLog, photoEvent>>
fbVars    == <<data, userInput, feedback, fbLoading, fbPending, fbTimeLeft, fbEvent>>
dataVars  == <<realWords, fakeWords>>
ctVars    == <<tokens, topic, ctLoading, gameState, ctPending, ctTimeLeft,
               ctService, ctEvent>>
fcVars    == <<category, fcIndex, flipped, cardDetails, fcLoading, isDeckFinished,
               knownWords, fcRequests, fcTimers>>
\* the App state an event of FlashcardsActivity cannot change
timerVars == <<timerDuration, timerTimeLeft, timerAge, timerElapsed, timerFinished>>
appFrame  == <<user, loginInput, currentView, completedDays, orphans, timerVars>>
appVars   == <<appFrame, storage>>
vars      == <<dataVars, rwVars, photoVars, fbVars, ctVars, fcVars, appVars>>

\* what an event of one activity leaves alone
outsidePhoto == <<dataVars, rwVars, fbVars, ctVars, fcVars, appVars>>
outsideRw    == <<photoVars, fbVars, ctVars, fcVars, appVars>>
outsideFb    == <<dataVars, rwVars, photoVars, ctVars, fcVars, appVars>>
outsideCt    == <<dataVars, rwVars, photoVars, fbVars, fcVars, appVars>>
outsideFc    == <<dataVars, rwVars, photoVars, fbVars, ctVars, appFrame>>
\* the activities of components/Activities
activityVars == <<dataVars, rwVars, photoVars, fbVars, ctVars>>

----------------------------------------------------------------------------
(* Helpers *)

Min(a, b) == IF a < b THEN a ELSE b
Max(a, b) == IF a > b THEN a ELSE b

Range(s) == {s[i] : i \in 1..Len(s)}

\* every reordering of the sequence s
Perms(s) == {p \in [1..Len(s) -> Range(s)] :
                \A x \in Range(s) :
                    Cardinality({i \in 1..Len(s) : p[i] = x}) =
                    Cardinality({i \in 1..Len(s) : s[i] = x})}

Last(s) == s[Len(s)]

----------------------------------------------------------------------------
(* PhotoGame *)

\* bound on the length of the composed text
MaxTextLen == 12
\* bound on the evaluation requests followed in one session
MaxEvalCalls == 2

\* <Timer duration={60} .../>
PhotoDuration == 60
\* disabled={text.length < 10}
SubmitMinLength == 10
\* if (text.length > 10)
TimeoutThreshold == 10

\* What `await evaluatePhotoDescription(...)` can deliver: the parsed body
\* (JSON.parse(response.text || "{}")) or the catch block's object.
\*   "graded"   an object carrying score, feedback, corrections, betterVersion
\*   "empty"    {} (empty body) or any other object lacking the fields
\*   "fallback" the catch block's zero-score object
\*   "falsy"    a body that parses to a falsy JSON value: null, 0, false, ""
EvaluationOutcomes == {"graded", "empty", "fallback", "falsy"}

FallbackEvaluation_silent ==
    [score |-> 0, feedback |-> "", corrections |-> <<>>, betterVersion |-> ""]

\* the object returned by the catch block of evaluatePhotoDescription, which
\* `result` holds after the outcome "fallback"
FallbackEvaluation ==
    [score |-> 0, feedback |-> "Error connecting to AI tutor.",
     corrections |-> <<>>, betterVersion |-> ""]

\* JavaScript truthiness of `result`
Truthy(r) == r \notin {"null", "falsy"}

\* The render of PhotoGame: which of its four returns is taken.
PhotoView(st, res) ==
    IF st = "evaluating" THEN "evaluating"
    ELSE IF st = "timeout" THEN "timeout"
    ELSE IF st = "results" /\ Truthy(res) THEN "results"
    ELSE "writing"

\* <Timer> is rendered by the last return only
TimerMounted(st, res) == PhotoView(st, res) = "writing"

\* timeLeft of the Timer after a render: a Timer that was not mounted before
\* the render starts from its duration
PhotoTimerAfter(stNew, resNew, kept) ==
    IF TimerMounted(stNew, resNew) /\ ~TimerMounted(stage, result)
    THEN PhotoDuration
    ELSE kept

\* handleSubmit up to its await: setStage('evaluating') and the request
handleSubmit(by) ==
    /\ stage' = "evaluating"
    /\ evalLog' = Append(evalLog, by)
    /\ UNCHANGED <<text, result>>

TimeoutForcesEvaluation_low(len) == len > 5

\* the test of handleTimeout
TimeoutForcesEvaluation(len) == len > TimeoutThreshold

\* handleTimeout
handleTimeout ==
    IF TimeoutForcesEvaluation(text)
    THEN handleSubmit("timeout")
    ELSE /\ stage' = "timeout"
         /\ UNCHANGED <<text, result, evalLog>>

\* textarea onChange: the text becomes any other value
PhotoType(n) ==
    /\ PhotoView(stage, result) = "writing"
    /\ n # text
    /\ text' = n
    /\ photoEvent' = "type"
    /\ UNCHANGED <<stage, result, photoTimeLeft, evalLog>>
    /\ UNCHANGED outsidePhoto

\* a speculation phrase button: setText(prev => prev + phrase + " ")
PhotoAddPhrase(k) ==
    /\ PhotoView(stage, result) = "writing"
    /\ text + k <= MaxTextLen
    /\ text' = text + k
    /\ photoEvent' = "phrase"
    /\ UNCHANGED <<stage, result, photoTimeLeft, evalLog>>
    /\ UNCHANGED outsidePhoto

\* the SUBMIT RESPONSE button is enabled
SubmitEnabled(len) == ~(len < SubmitMinLength)

\* click on SUBMIT RESPONSE
PhotoSubmit ==
    /\ PhotoView(stage, result) = "writing"
    /\ SubmitEnabled(text)
    /\ Len(evalLog) < MaxEvalCalls
    /\ handleSubmit("manual")
    /\ photoEvent' = "submit"
    /\ photoTimeLeft' = PhotoTimerAfter(stage', result', photoTimeLeft)
    /\ UNCHANGED outsidePhoto

\* one tick of the Timer's interval; the effect of the render with
\* timeLeft = 0 calls onFinish, that is handleTimeout
PhotoTick ==
    /\ TimerMounted(stage, result)
    /\ photoTimeLeft > 0
    /\ IF photoTimeLeft - 1 <= 0
       THEN /\ TimeoutForcesEvaluation(text) => Len(evalLog) < MaxEvalCalls
            /\ handleTimeout
            /\ photoEvent' = "expire"
            /\ photoTimeLeft' = PhotoTimerAfter(stage', result', photoTimeLeft - 1)
       ELSE /\ photoTimeLeft' = photoTimeLeft - 1
            /\ photoEvent' = "tick"
            /\ UNCHANGED <<text, stage, result, evalLog>>
    /\ UNCHANGED outsidePhoto

StageAfterEvaluation_writing == "writing"

\* setStage('results') after the await
StageAfterEvaluation == "results"

\* the awaited evaluation returns: setResult(evaluation); setStage('results')
PhotoEvalDone(r) ==
    /\ stage = "evaluating"
    /\ result' = r
    /\ stage' = StageAfterEvaluation
    /\ photoEvent' = "evalDone"
    /\ photoTimeLeft' = PhotoTimerAfter(stage', result', photoTimeLeft)
    /\ UNCHANGED <<text, evalLog>>
    /\ UNCHANGED outsidePhoto

\* the Try Again button of the timeout screen: setStage('writing')
PhotoTryAgain ==
    /\ PhotoView(stage, result) = "timeout"
    /\ stage' = "writing"
    /\ photoEvent' = "tryAgain"
    /\ photoTimeLeft' = PhotoTimerAfter(stage', result, photoTimeLeft)
    /\ UNCHANGED <<text, result, evalLog>>
    /\ UNCHANGED outsidePhoto

PhotoInit ==
    /\ text = 0
    /\ stage = "writing"
    /\ result = "null"
    /\ photoTimeLeft = PhotoDuration
    /\ evalLog = <<>>
    /\ photoEvent = "init"

PhotoNext ==
    \/ \E n \in 0..MaxTextLen : PhotoType(n)
    \/ \E k \in 1..MaxTextLen : PhotoAddPhrase(k)
    \/ PhotoSubmit
    \/ PhotoTick
    \/ \E r \in EvaluationOutcomes : PhotoEvalDone(r)
    \/ PhotoTryAgain

----------------------------------------------------------------------------
(* Static vocabulary *)

\* the real-word list of the data module (its words stand for the list)
RealWordList == <<"table", "house", "river">>
\* the non-word list of the data module
FakeWordList == <<"blicket", "florp">>

DataInit ==
    /\ realWords = RealWordList
    /\ fakeWords = FakeWordList

----------------------------------------------------------------------------
(* RealWordGame *)

\* bound standing for the 10 items sliced from each list
SliceLen == 2
\* bound standing for the 500 ticks of 10 ms given to each item
RwTimerStart == 1

RwLoaded == words # <<>>

\* the mount effect: both lists are sorted in place with a random comparator,
\* the first SliceLen of each are taken and the mix is sorted the same way
LoadWords ==
    /\ ~RwLoaded
    /\ \E rs \in Perms(realWords), fs \in Perms(fakeWords) :
         LET reals == [i \in 1..Min(SliceLen, Len(rs)) |-> [text |-> rs[i], isReal |-> TRUE]]
             fakes == [i \in 1..Min(SliceLen, Len(fs)) |-> [text |-> fs[i], isReal |-> FALSE]]
         IN  /\ realWords' = rs
             /\ fakeWords' = fs
             /\ \E mix \in Perms(reals \o fakes) : words' = mix
    /\ UNCHANGED <<currentIndex, score, gameOver, userResults, rwTimeLeft, judgments>>
    /\ UNCHANGED outsideRw

handleNext_twice(isCorrect) ==
    LET currentWord == words[currentIndex + 1]
        entry == [word |-> currentWord.text, isReal |-> currentWord.isReal,
                  correct |-> isCorrect]
    IN  /\ userResults' = userResults \o <<entry, entry>>
        /\ score' = IF isCorrect THEN score + 1 ELSE score
        /\ rwTimeLeft' = RwTimerStart
        /\ IF currentIndex < Len(words) - 1
           THEN currentIndex' = currentIndex + 1 /\ gameOver' = gameOver
           ELSE gameOver' = TRUE /\ currentIndex' = currentIndex

\* handleNext: record the result, count it, restart the item's countdown and
\* advance or finish
handleNext(isCorrect) ==
    LET currentWord == words[currentIndex + 1]
    IN  /\ userResults' = Append(userResults,
               [word |-> currentWord.text, isReal |-> currentWord.isReal,
                correct |-> isCorrect])
        /\ score' = IF isCorrect THEN score + 1 ELSE score
        /\ rwTimeLeft' = RwTimerStart
        /\ IF currentIndex < Len(words) - 1
           THEN currentIndex' = currentIndex + 1 /\ gameOver' = gameOver
           ELSE gameOver' = TRUE /\ currentIndex' = currentIndex

TimeExpired_asReal ==
    /\ handleNext(words[currentIndex + 1].isReal = TRUE)
    /\ judgments' = Append(judgments, "none")

TimeExpired_restartOnly ==
    /\ rwTimeLeft' = RwTimerStart
    /\ UNCHANGED <<currentIndex, score, gameOver, userResults, judgments>>

\* the branch `prev <= 0` of the interval callback: handleNext(false), return 500
TimeExpired ==
    /\ handleNext(FALSE)
    /\ judgments' = Append(judgments, "none")

\* one tick of the 10 ms interval, set while the game runs
RwTick ==
    /\ ~gameOver
    /\ RwLoaded
    /\ IF rwTimeLeft <= 0
       THEN TimeExpired
       ELSE /\ rwTimeLeft' = rwTimeLeft - 1
            /\ UNCHANGED <<currentIndex, score, gameOver, userResults, judgments>>
    /\ UNCHANGED <<words, dataVars>>
    /\ UNCHANGED outsideRw

ChoiceIsCorrect_yesOnly(choice) == choice

\* handleChoice: choice === words[currentIndex].isReal
ChoiceIsCorrect(choice) == choice = words[currentIndex + 1].isReal

\* click on YES (choice = TRUE) or NO (choice = FALSE)
handleChoice(choice) ==
    /\ RwLoaded
    /\ ~gameOver
    /\ handleNext(ChoiceIsCorrect(choice))
    /\ judgments' = Append(judgments, IF choice THEN "yes" ELSE "no")
    /\ UNCHANGED <<words, dataVars>>
    /\ UNCHANGED outsideRw

RwInit ==
    /\ words = <<>>
    /\ currentIndex = 0
    /\ score = 0
    /\ gameOver = FALSE
    /\ userResults = <<>>
    /\ rwTimeLeft = RwTimerStart
    /\ judgments = <<>>

RwNext ==
    \/ LoadWords
    \/ RwTick
    \/ \E choice \in BOOLEAN : handleChoice(choice)

----------------------------------------------------------------------------
(* Strings: a string is a sequence of one-character strings *)

LowerLetters ==
    <<"a", "b", "c", "d", "e", "f", "g", "h", "i", "j", "k", "l", "m",
      "n", "o", "p", "q", "r", "s", "t", "u", "v", "w", "x", "y", "z">>
UpperLetters ==
    <<"A", "B", "C", "D", "E", "F", "G", "H", "I", "J", "K", "L", "M",
      "N", "O", "P", "Q", "R", "S", "T", "U", "V", "W", "X", "Y", "Z">>

\* String.prototype.toLowerCase, character by character
toLowerCase(s) ==
    [i \in 1..Len(s) |->
        IF \E k \in 1..Len(UpperLetters) : UpperLetters[k] = s[i]
        THEN LowerLetters[CHOOSE k \in 1..Len(UpperLetters) : UpperLetters[k] = s[i]]
        ELSE s[i]]

\* String.prototype.toUpperCase, character by character
toUpperCase(s) ==
    [i \in 1..Len(s) |->
        IF \E k \in 1..Len(LowerLetters) : LowerLetters[k] = s[i]
        THEN UpperLetters[CHOOSE k \in 1..Len(LowerLetters) : LowerLetters[k] = s[i]]
        ELSE s[i]]

RECURSIVE trimStart(_)
trimStart(s) == IF s # <<>> /\ Head(s) = " " THEN trimStart(Tail(s)) ELSE s

RECURSIVE trimEnd(_)
trimEnd(s) ==
    IF s # <<>> /\ s[Len(s)] = " " THEN trimEnd(SubSeq(s, 1, Len(s) - 1)) ELSE s

\* String.prototype.trim
trim(s) == trimEnd(trimStart(s))

\* String.prototype.substring(0, end)
substring0(s, end) == SubSeq(s, 1, Min(Max(end, 0), Len(s)))

----------------------------------------------------------------------------
(* FillBlankGame *)

\* bound on the length of the target words
MaxTargetLen == 9

\* <Timer duration={20} .../>
FbDuration == 20

\* data before the first response: null
NoData == [null |-> TRUE]

\* the letters the target words are cut from
TargetBase == <<"e", "l", "e", "p", "h", "a", "n", "t", "a", "b", "l", "e">>

Capitalised(w) == IF w = <<>> THEN w ELSE toUpperCase(<<Head(w)>>) \o Tail(w)

\* the words generateFillInBlank may name as missingWord
FbTargets ==
    LET plain == {SubSeq(TargetBase, 1, n) : n \in 0..Min(MaxTargetLen, Len(TargetBase))}
    IN  plain \cup {Capitalised(w) : w \in plain}

\* what generateFillInBlank may resolve to: the parsed body, or the catch
\* block's templated sentence around the chosen word
FbResponses == [sentence : {"generated", "template"}, missingWord : FbTargets]

\* what the user may have in the input while the word w is asked
FbInputs(w) ==
    LET tails == {SubSeq(w, k, Len(w)) : k \in 1..(Len(w) + 1)}
    IN  tails \cup {toUpperCase(t) : t \in tails}
              \cup {t \o <<" ">> : t \in tails}
              \cup {<<" ">> \o t : t \in tails}

getPrefix_floorOnly(word) == substring0(word, Len(word) \div 3)

\* getPrefix: word.substring(0, Math.max(1, Math.floor(word.length / 3)))
getPrefix(word) == substring0(word, Max(1, Len(word) \div 3))

checkAnswerResult_caseSensitive(missingWord, input, isTimeout) ==
    LET fullAttempt == getPrefix(missingWord) \o input
    IN  IF trim(fullAttempt) = missingWord THEN "correct" ELSE "incorrect"

\* the comparison of checkAnswer, for the word asked and the input typed
checkAnswerResult(missingWord, input, isTimeout) ==
    LET prefix == getPrefix(missingWord)
        fullAttempt == prefix \o input
    IN  IF toLowerCase(trim(fullAttempt)) = toLowerCase(missingWord)
        THEN "correct"
        ELSE "incorrect"

\* checkAnswer
checkAnswer(isTimeout) ==
    IF data = NoData
    THEN UNCHANGED feedback
    ELSE feedback' = checkAnswerResult(data.missingWord, userInput, isTimeout)

\* the render of FillBlankGame shows the sentence, the input and the Timer
FbShown == ~fbLoading /\ data # NoData

loadNewStart_keepInput ==
    /\ fbLoading' = TRUE
    /\ feedback' = "none"
    /\ fbPending' = TRUE
    /\ UNCHANGED <<data, fbTimeLeft, userInput>>

\* loadNew up to its await
loadNewStart ==
    /\ fbLoading' = TRUE
    /\ feedback' = "none"
    /\ userInput' = <<>>
    /\ fbPending' = TRUE
    /\ UNCHANGED <<data, fbTimeLeft>>

\* the mount effect: loadNew()
FbMount ==
    /\ fbEvent = "init"
    /\ loadNewStart
    /\ fbEvent' = "load"
    /\ UNCHANGED outsideFb

\* loadNew after its await: setData(res); setLoading(false); the Timer mounts
FbLoadDone(res) ==
    /\ fbPending
    /\ data' = res
    /\ fbLoading' = FALSE
    /\ fbPending' = FALSE
    /\ fbTimeLeft' = FbDuration
    /\ fbEvent' = IF fbEvent = "next" THEN "reloaded" ELSE "loaded"
    /\ UNCHANGED <<userInput, feedback>>
    /\ UNCHANGED outsideFb

\* input onChange, possible while the input is enabled
FbType ==
    /\ FbShown
    /\ feedback = "none"
    /\ \E v \in FbInputs(data.missingWord) : v # userInput /\ userInput' = v
    /\ fbEvent' = "type"
    /\ UNCHANGED <<data, feedback, fbLoading, fbPending, fbTimeLeft>>
    /\ UNCHANGED outsideFb

\* the SUBMIT button, or Enter in the input
FbSubmit ==
    /\ FbShown
    /\ feedback = "none"
    /\ checkAnswer(FALSE)
    /\ fbEvent' = "submit"
    /\ UNCHANGED <<data, userInput, fbLoading, fbPending, fbTimeLeft>>
    /\ UNCHANGED outsideFb

handleTimeUp_ignore == UNCHANGED feedback

\* handleTimeUp
handleTimeUp ==
    IF feedback = "none" THEN checkAnswer(TRUE) ELSE UNCHANGED feedback

\* one tick of the Timer's interval; at 0 the effect calls handleTimeUp
FbTick ==
    /\ FbShown
    /\ fbTimeLeft > 0
    /\ fbTimeLeft' = fbTimeLeft - 1
    /\ IF fbTimeLeft - 1 <= 0
       THEN /\ handleTimeUp
            /\ fbEvent' = IF feedback = "none" THEN "timeUp" ELSE "timeUpAnswered"
       ELSE UNCHANGED feedback /\ fbEvent' = "tick"
    /\ UNCHANGED <<data, userInput, fbLoading, fbPending>>
    /\ UNCHANGED outsideFb

\* the NEXT SENTENCE button: loadNew()
FbNextSentence ==
    /\ FbShown
    /\ feedback # "none"
    /\ loadNewStart
    /\ fbEvent' = "next"
    /\ UNCHANGED outsideFb

FbInit ==
    /\ data = NoData
    /\ userInput = <<>>
    /\ feedback = "none"
    /\ fbLoading = FALSE
    /\ fbPending = FALSE
    /\ fbTimeLeft = FbDuration
    /\ fbEvent = "init"

FbNext ==
    \/ FbMount
    \/ \E res \in FbResponses : FbLoadDone(res)
    \/ FbType
    \/ FbSubmit
    \/ FbTick
    \/ FbNextSentence

----------------------------------------------------------------------------
(* CompleteTextGame *)

\* bound on the draws of Math.random() followed in one paragraph: the draws
\* read after the first MaxDrawn are taken as not above 0.6
MaxDrawn == 3
\* bound standing for the 180 one-second ticks of <Timer duration={180}>
CtTimerStart == 2

\* the text of the paragraph returned by the catch block
FallbackText ==
    <<"T", "e", "c", "h", "n", "o", "l", "o", "g", "y", " ", "h", "a",
      "s", " ", "r", "e", "v", "o", "l", "u", "t", "i", "o", "n", "i",
      "z", "e", "d", " ", "t", "h", "e", " ", "w", "a", "y", " ", "w",
      "e", " ", "c", "o", "m", "m", "u", "n", "i", "c", "a", "t", "e",
      ".", " ", "I", "n", " ", "t", "h", "e", " ", "p", "a", "s", "t",
      ",", " ", "l", "e", "t", "t", "e", "r", "s", " ", "t", "o", "o",
      "k", " ", "d", "a", "y", "s", " ", "t", "o", " ", "a", "r", "r",
      "i", "v", "e", ",", " ", "b", "u", "t", " ", "n", "o", "w", " ",
      "e", "m", "a", "i", "l", "s", " ", "a", "r", "e", " ", "i", "n",
      "s", "t", "a", "n", "t", "a", "n", "e", "o", "u", "s", ".", " ",
      "H", "o", "w", "e", "v", "e", "r", ",", " ", "t", "h", "i", "s",
      " ", "c", "o", "n", "v", "e", "n", "i", "e", "n", "c", "e", " ",
      "c", "o", "m", "e", "s", " ", "w", "i", "t", "h", " ", "c", "h",
      "a", "l", "l", "e", "n", "g", "e", "s", ",", " ", "s", "u", "c",
      "h", " ", "a", "s", " ", "m", "a", "i", "n", "t", "a", "i", "n",
      "i", "n", "g", " ", "p", "r", "i", "v", "a", "c", "y", " ", "a",
      "n", "d", " ", "a", "v", "o", "i", "d", "i", "n", "g", " ", "d",
      "i", "s", "t", "r", "a", "c", "t", "i", "o", "n", "s", " ", "i",
      "n", " ", "o", "u", "r", " ", "d", "a", "i", "l", "y", " ", "l",
      "i", "v", "e", "s", ".">>

\* the paragraph returned by the catch block of generateParagraphTask
FallbackParagraph == [topic |-> "Technology", text |-> FallbackText]

\* a generated text: short words, an apostrophe, a digit, two spaces in a row
BeesText ==
    <<"B", "e", "e", "s", " ", "m", "a", "k", "e", " ", "h", "o", "n",
      "e", "y", ".", " ", "D", "o", "n", "'", "t", " ", " ", "w", "a",
      "i", "t", " ", "4", "e", "v", "e", "r", "!">>

\* the bodies the service may answer with
ParagraphBodies == {[topic |-> "Bees", text |-> BeesText],
                    [topic |-> "Nothing", text |-> <<>>]}

\* the request throws: no connection, an error status, an unparsable body
ServiceError == [error |-> TRUE]

\* how a request may end: a parsed body, or an exception
ParagraphOutcomes == ParagraphBodies \cup {ServiceError}

generateParagraphTask_noFallback(outcome) ==
    IF outcome = ServiceError THEN [topic |-> "", text |-> <<>>] ELSE outcome

\* generateParagraphTask: the parsed body, or the fixed paragraph on an error
generateParagraphTask(outcome) ==
    IF outcome = ServiceError THEN FallbackParagraph ELSE outcome

\* \s of the split pattern, over the characters of the texts
IsSpace(c) == c = " "
\* [.,!?;] of the split pattern
IsPunct(c) == c \in {".", ",", "!", "?", ";"}

\* text.split(/(\s+|[.,!?;])/): the pieces between the delimiters and the
\* delimiters themselves, a run of spaces being one delimiter
RECURSIVE split(_)
split(s) ==
    LET delims == {i \in 1..Len(s) : IsSpace(s[i]) \/ IsPunct(s[i])}
    IN  IF delims = {}
        THEN <<s>>
        ELSE LET q == CHOOSE i \in delims : \A j \in delims : i <= j
                 e == IF IsSpace(s[q])
                      THEN CHOOSE k \in q..Len(s) :
                               /\ \A j \in q..k : IsSpace(s[j])
                               /\ k = Len(s) \/ ~IsSpace(s[k + 1])
                      ELSE q
             IN  <<SubSeq(s, 1, q - 1), SubSeq(s, q, e)>>
                     \o split(SubSeq(s, e + 1, Len(s)))

\* data.text.split(/(\s+|[.,!?;])/), for each way the request may end
ParagraphWords ==
    [outcome \in ParagraphOutcomes |-> split(generateParagraphTask(outcome).text)]

\* /^[a-zA-Z]+$/.test(w)
isWord(w) ==
    /\ w # <<>>
    /\ \A i \in 1..Len(w) : w[i] \in Range(LowerLetters) \cup Range(UpperLetters)

\* isWord && w.length > 3 && Math.random() > 0.6, the draw being above 0.6 or not
shouldBlank(w, above) == isWord(w) /\ Len(w) > 3 /\ above

visualPrefix_whole(w) == w

\* w.substring(0, Math.max(1, Math.floor(w.length / 2)))
visualPrefix(w) == substring0(w, Max(1, Len(w) \div 2))

makeToken_graded(w, above) ==
    IF shouldBlank(w, above)
    THEN [fullWord |-> w, prefix |-> visualPrefix(w), isBlank |-> TRUE,
          userAnswer |-> <<>>, isCorrect |-> FALSE]
    ELSE [fullWord |-> w, prefix |-> <<>>, isBlank |-> FALSE, userAnswer |-> <<>>]

\* the callback of rawWords.map: one token per piece
makeToken(w, above) ==
    IF shouldBlank(w, above)
    THEN [fullWord |-> w, prefix |-> visualPrefix(w), isBlank |-> TRUE,
          userAnswer |-> <<>>]
    ELSE [fullWord |-> w, prefix |-> <<>>, isBlank |-> FALSE, userAnswer |-> <<>>]

\* the positions of the map at which Math.random() is read
DrawnAt(rawWords) == {i \in 1..Len(rawWords) : shouldBlank(rawWords[i], TRUE)}

\* the outcomes of the draws of one map: the positions whose draw is above
\* 0.6, among the first MaxDrawn at which a draw is read
BlankDraws(rawWords) ==
    SUBSET {i \in DrawnAt(rawWords) :
               Cardinality({j \in DrawnAt(rawWords) : j < i}) < MaxDrawn}

\* the values typed into the input of the blank t: nothing, the missing
\* letters, the same in capitals, the same followed by a space
CtAnswers(t) ==
    LET rest == SubSeq(t.fullWord, Len(t.prefix) + 1, Len(t.fullWord))
    IN  {<<>>, rest, toUpperCase(rest), rest \o <<" ">>}

\* the three views of CompleteTextGame
CtPhase ==
    IF ctLoading THEN "Loading"
    ELSE IF gameState = "playing" THEN "Playing" ELSE "Review"

loadLevelStart_keepState ==
    /\ ctLoading' = TRUE
    /\ ctPending' = TRUE
    /\ UNCHANGED <<tokens, topic, ctTimeLeft, ctService, gameState>>

\* loadLevel up to its await
loadLevelStart ==
    /\ ctLoading' = TRUE
    /\ gameState' = "playing"
    /\ ctPending' = TRUE
    /\ UNCHANGED <<tokens, topic, ctTimeLeft, ctService>>

\* the mount effect: loadLevel()
CtMount ==
    /\ ctEvent = "init"
    /\ loadLevelStart
    /\ ctEvent' = "load"
    /\ UNCHANGED outsideCt

\* loadLevel after its await: the topic, the tokens, setLoading(false); the
\* playing view mounts its Timer
CtLoadDone(outcome) ==
    /\ ctPending
    /\ LET paragraph == generateParagraphTask(outcome)
           rawWords == ParagraphWords[outcome]
       IN  /\ topic' = paragraph.topic
           /\ \E above \in BlankDraws(rawWords) :
                  tokens' = [i \in 1..Len(rawWords) |-> makeToken(rawWords[i], i \in above)]
    /\ ctService' = IF outcome = ServiceError THEN "error" ELSE "body"
    /\ ctLoading' = FALSE
    /\ ctPending' = FALSE
    /\ ctTimeLeft' = CtTimerStart
    /\ ctEvent' = IF ctEvent = "next" THEN "reloaded" ELSE "loaded"
    /\ UNCHANGED gameState
    /\ UNCHANGED outsideCt

\* handleInput: onChange of the input of a blank, enabled while playing
handleInput ==
    /\ CtPhase = "Playing"
    /\ \E index \in 1..Len(tokens) :
          /\ tokens[index].isBlank
          /\ \E value \in CtAnswers(tokens[index]) :
                /\ value # tokens[index].userAnswer
                /\ tokens' = [tokens EXCEPT ![index].userAnswer = value]
    /\ ctEvent' = "input"
    /\ UNCHANGED <<topic, ctLoading, gameState, ctPending, ctTimeLeft, ctService>>
    /\ UNCHANGED outsideCt

gradeToken_caseSensitive(t) ==
    IF ~t.isBlank
    THEN t
    ELSE [fullWord |-> t.fullWord, prefix |-> t.prefix, isBlank |-> t.isBlank,
          userAnswer |-> t.userAnswer,
          isCorrect |-> (t.prefix \o t.userAnswer = t.fullWord)]

\* the callback of tokens.map in checkAnswers: { ...t, isCorrect }
gradeToken(t) ==
    IF ~t.isBlank
    THEN t
    ELSE LET fullGuess == t.prefix \o t.userAnswer
         IN  [fullWord |-> t.fullWord, prefix |-> t.prefix, isBlank |-> t.isBlank,
              userAnswer |-> t.userAnswer,
              isCorrect |-> (toLowerCase(fullGuess) = toLowerCase(t.fullWord))]

\* checkAnswers; the review view has no Timer
checkAnswers ==
    /\ tokens' = [i \in 1..Len(tokens) |-> gradeToken(tokens[i])]
    /\ gameState' = "review"
    /\ ctTimeLeft' = CtTimerStart

\* the Submit button of the playing view
CtSubmit ==
    /\ CtPhase = "Playing"
    /\ checkAnswers
    /\ ctEvent' = "submit"
    /\ UNCHANGED <<topic, ctLoading, ctPending, ctService>>
    /\ UNCHANGED outsideCt

\* one tick of the Timer's interval; at 0 the effect calls checkAnswers
CtTick ==
    /\ CtPhase = "Playing"
    /\ ctTimeLeft > 0
    /\ IF ctTimeLeft - 1 <= 0
       THEN checkAnswers /\ ctEvent' = "timeUp"
       ELSE /\ ctTimeLeft' = ctTimeLeft - 1
            /\ ctEvent' = "tick"
            /\ UNCHANGED <<tokens, gameState>>
    /\ UNCHANGED <<topic, ctLoading, ctPending, ctService>>
    /\ UNCHANGED outsideCt

\* the Next Paragraph button of the review view: loadLevel()
CtNextParagraph ==
    /\ CtPhase = "Review"
    /\ loadLevelStart
    /\ ctEvent' = "next"
    /\ UNCHANGED outsideCt

\* !t.isCorrect, undefined being falsy
NotCorrect(t) == IF "isCorrect" \in DOMAIN t THEN ~t.isCorrect ELSE TRUE

Corrections_allBlanks ==
    LET shown == SelectSeq(tokens, LAMBDA t : t.isBlank)
    IN  [k \in 1..Len(shown) |->
            [submitted |-> shown[k].prefix \o shown[k].userAnswer,
             correct |-> shown[k].fullWord]]

\* the Corrections list of the review view:
\* tokens.filter(t => t.isBlank && !t.isCorrect), each shown as
\* prefix + userAnswer struck through and fullWord
Corrections ==
    LET shown == SelectSeq(tokens, LAMBDA t : t.isBlank /\ NotCorrect(t))
    IN  [k \in 1..Len(shown) |->
            [submitted |-> shown[k].prefix \o shown[k].userAnswer,
             correct |-> shown[k].fullWord]]

CtInit ==
    /\ tokens = <<>>
    /\ topic = ""
    /\ ctLoading = TRUE
    /\ gameState = "playing"
    /\ ctPending = FALSE
    /\ ctTimeLeft = CtTimerStart
    /\ ctService = "none"
    /\ ctEvent = "init"

CtNext ==
    \/ CtMount
    \/ \E outcome \in ParagraphOutcomes : CtLoadDone(outcome)
    \/ handleInput
    \/ CtSubmit
    \/ CtTick
    \/ CtNextParagraph

----------------------------------------------------------------------------
(* App and AuthenticatedApp: the active user and the progress store *)

\* the user of the sessions modelled, and a former user of the same browser
UserA == <<"a">>
UserB == <<"b">>
Users == {UserA, UserB}
\* no active user: null. A name is never empty, and `!user` is all the code
\* asks of it
NoUser == <<>>

\* the days of the study plan of the data module
PlanDays == {1}

\* what localStorage.getItem returns for a key that is not set: null
NoItem == [null |-> TRUE]

\* JSON.stringify of an array of strings or numbers, and JSON.parse of it
stringify(list) == [json |-> list]
parse(item) == item.json

\* localStorage: the items 'det_current_user', 'det_<user>_known_words' and
\* 'det_<user>_completed_days'
setCurrentUser(store, name) == [store EXCEPT !.currentUser = name]
removeCurrentUser(store) == [store EXCEPT !.currentUser = NoUser]
setKnownWordsItem(store, name, list) == [store EXCEPT !.words[name] = stringify(list)]
setCompletedDaysItem(store, name, list) == [store EXCEPT !.days[name] = stringify(list)]

savedOrEmpty_forgetful(item) == <<>>

\* the lazy initial state of knownWords and of completedDays:
\* saved ? JSON.parse(saved) : []
savedOrEmpty(item) == IF item = NoItem THEN <<>> ELSE parse(item)

\* the browser's storage when the page is loaded: the records of the former
\* user, and either nobody logged in or the user back with an empty progress
FirstStorage ==
    [currentUser |-> NoUser,
     words |-> (UserA :> NoItem @@ UserB :> stringify(<<"river">>)),
     days |-> (UserA :> NoItem @@ UserB :> stringify(<<1>>))]
ReturningStorage ==
    [currentUser |-> UserA,
     words |-> (UserA :> stringify(<<>>) @@ UserB :> stringify(<<"river">>)),
     days |-> (UserA :> stringify(<<>>) @@ UserB :> stringify(<<1>>))]
InitialStorages == {FirstStorage, ReturningStorage}

KnownWordsEffect_both(called) ==
    storage' = IF called
               THEN setCompletedDaysItem(setKnownWordsItem(storage, user, knownWords'),
                                         user, <<>>)
               ELSE storage

\* the effect on [knownWords, STORAGE_KEY_WORDS], run after a render in
\* which setKnownWords was called
KnownWordsEffect(called) ==
    storage' = IF called
               THEN setKnownWordsItem(storage, user, knownWords')
               ELSE storage

----------------------------------------------------------------------------
(* FlashcardsActivity *)

\* bound on the word-detail requests in flight at one time
MaxPendingFetches == 2
\* bound on the delayed advances of 'Review' waiting for their 200 ms
MaxPendingTimers == 1
\* bound on the number of words marked known
MaxKnown == 2

\* the transition-word list of the data module
TransitionWordList == <<"however">>
\* the photo-word list of the data module
PhotoWordList == <<"foreground">>

\* cardDetails before any response: null
NoDetails == [null |-> TRUE]

\* how a word-detail request may end: a parsed body, or an exception
DetailOutcomes == {"body", "error"}

getWordDetails_silent(word, outcome) ==
    IF outcome = "error"
    THEN NoDetails
    ELSE [for |-> word, translation |-> "translation", example |-> "example"]

\* getWordDetails: the parsed body, or the placeholders of the catch block;
\* `for` records the word the request was made for
getWordDetails(word, outcome) ==
    IF outcome = "error"
    THEN [for |-> word, translation |-> "...", example |-> "Could not load example."]
    ELSE [for |-> word, translation |-> "translation", example |-> "example"]

\* fullDeck of a render
FullDeck(cat) ==
    IF cat = "general" THEN realWords
    ELSE IF cat = "transitions" THEN TransitionWordList
    ELSE IF cat = "photo" THEN PhotoWordList
    ELSE <<>>

\* deck of a render: fullDeck.filter(w => !knownWords.includes(w.word))
Deck(cat, known) == SelectSeq(FullDeck(cat), LAMBDA w : w \notin Range(known))

CardAt_noFallback(deck, idx) == IF idx < Len(deck) THEN deck[idx + 1] ELSE "undefined"

\* deck[index] || deck[0], for a deck that is not empty
CardAt(deck, idx) == IF idx < Len(deck) THEN deck[idx + 1] ELSE deck[1]

\* the state of the component and of its parent's knownWords, as one render
\* sees it
FcState ==
    [cat |-> category, idx |-> fcIndex, flip |-> flipped, det |-> cardDetails,
     load |-> fcLoading, fin |-> isDeckFinished, known |-> knownWords,
     req |-> fcRequests]

\* the dependencies of the second effect: [index, category, deck.length,
\* fullDeck.length]
FetchDeps(st) ==
    <<st.idx, st.cat, Len(Deck(st.cat, st.known)), Len(FullDeck(st.cat))>>

\* the first effect, on a change of category: the local state is reset
ResetOnCategory(st) ==
    [st EXCEPT !.idx = 0, !.flip = FALSE, !.det = NoDetails, !.fin = FALSE]

\* the second effect, for the render `seen`, its updates applied to st: the
\* end of the deck is detected, or fetchDetails runs up to its await
FetchOrFinish(seen, st) ==
    LET deck == Deck(seen.cat, seen.known)
    IN  IF seen.cat = "null" THEN st
        ELSE IF Len(deck) = 0
        THEN IF Len(FullDeck(seen.cat)) > 0 THEN [st EXCEPT !.fin = TRUE] ELSE st
        ELSE [st EXCEPT !.load = TRUE, !.det = NoDetails,
                        !.req = Append(@, CardAt(deck, seen.idx))]

\* the renders that follow an update: each runs the effects whose
\* dependencies differ from those of the render before, until none does
RECURSIVE RunEffects(_, _, _)
RunEffects(prevCat, prevDeps, st) ==
    LET first == prevCat # st.cat
        second == prevDeps # FetchDeps(st)
        afterFirst == IF first THEN ResetOnCategory(st) ELSE st
        afterSecond == IF second THEN FetchOrFinish(st, afterFirst) ELSE afterFirst
    IN  IF ~first /\ ~second
        THEN st
        ELSE RunEffects(st.cat, FetchDeps(st), afterSecond)

\* the component after an update to st and the renders it causes
FcCommit(st) ==
    \E s \in {RunEffects(category, FetchDeps(FcState), st)} :
        /\ Len(s.req) <= MaxPendingFetches
        /\ category' = s.cat
        /\ fcIndex' = s.idx
        /\ flipped' = s.flip
        /\ cardDetails' = s.det
        /\ fcLoading' = s.load
        /\ isDeckFinished' = s.fin
        /\ knownWords' = s.known
        /\ fcRequests' = s.req

\* which of the four returns of the render is taken
FcView ==
    IF category = "null" THEN "categories"
    ELSE IF isDeckFinished THEN "finished"
    ELSE IF Len(Deck(category, knownWords)) = 0 THEN "empty"
    ELSE "card"

\* a category button: setCategory(c)
FcSelectCategory(c) ==
    /\ FcView = "categories"
    /\ FcCommit([FcState EXCEPT !.cat = c])
    /\ UNCHANGED fcTimers
    /\ KnownWordsEffect(FALSE)
    /\ UNCHANGED outsideFc

\* 'Categories' of the card view, 'Back to Categories' of the finished view
FcBack ==
    /\ FcView \in {"card", "finished"}
    /\ FcCommit([FcState EXCEPT !.cat = "null"])
    /\ UNCHANGED fcTimers
    /\ KnownWordsEffect(FALSE)
    /\ UNCHANGED outsideFc

\* click on the card: setFlipped(!flipped)
FcFlip ==
    /\ FcView = "card"
    /\ FcCommit([FcState EXCEPT !.flip = ~flipped])
    /\ UNCHANGED fcTimers
    /\ KnownWordsEffect(FALSE)
    /\ UNCHANGED outsideFc

markWordKnown_only(known, word) == <<word>>

\* markWordKnown of the parent
markWordKnown(known, word) ==
    IF word \notin Range(known) THEN Append(known, word) ELSE known

\* 'I Know It': handleKnown
handleKnown ==
    /\ FcView = "card"
    /\ Len(knownWords) < MaxKnown
    /\ LET deck == Deck(category, knownWords)
           currentCard == CardAt(deck, fcIndex)
       IN  FcCommit([FcState EXCEPT
                        !.flip = FALSE,
                        !.known = markWordKnown(knownWords, currentCard),
                        !.idx = IF fcIndex >= Len(deck) - 1 THEN 0 ELSE fcIndex])
    /\ UNCHANGED fcTimers
    /\ KnownWordsEffect(CardAt(Deck(category, knownWords), fcIndex) \notin Range(knownWords))
    /\ UNCHANGED outsideFc

nextIndex_stay(index, length) == index

\* the index 'Review' advances to: (index + 1) % deck.length
nextIndex(index, length) == (index + 1) % length

\* 'Review': handleUnknown; the advance is set for 200 ms later and closes
\* over the index and the deck of this render
handleUnknown ==
    /\ FcView = "card"
    /\ Len(fcTimers) < MaxPendingTimers
    /\ fcTimers' = Append(fcTimers, [index |-> fcIndex,
                                     length |-> Len(Deck(category, knownWords))])
    /\ FcCommit([FcState EXCEPT !.flip = FALSE])
    /\ KnownWordsEffect(FALSE)
    /\ UNCHANGED outsideFc

\* the callback of the oldest setTimeout: setIndex(...)
FcAdvance ==
    /\ fcTimers # <<>>
    /\ fcTimers' = Tail(fcTimers)
    /\ FcCommit([FcState EXCEPT
                    !.idx = nextIndex(Head(fcTimers).index, Head(fcTimers).length)])
    /\ KnownWordsEffect(FALSE)
    /\ UNCHANGED outsideFc

\* fetchDetails after its await, for the k-th request in flight:
\* setCardDetails(details); setLoading(false)
FcFetchDone(k, outcome) ==
    /\ k \in 1..Len(fcRequests)
    /\ LET details == getWordDetails(fcRequests[k], outcome)
           others == SubSeq(fcRequests, 1, k - 1) \o SubSeq(fcRequests, k + 1, Len(fcRequests))
       IN  FcCommit([FcState EXCEPT !.det = details, !.load = FALSE, !.req = others])
    /\ UNCHANGED fcTimers
    /\ KnownWordsEffect(FALSE)
    /\ UNCHANGED outsideFc

resetCategoryProgress_all(known, cat, confirmed) ==
    IF confirmed THEN <<>> ELSE known

\* resetCategoryProgress of the parent, the dialog being confirmed or not
resetCategoryProgress(known, cat, confirmed) ==
    IF confirmed
    THEN SelectSeq(known, LAMBDA w : w \notin Range(FullDeck(cat)))
    ELSE known

\* 'Reset Progress' of the card view, 'Restart' of the finished view:
\* handleReset
handleReset(confirmed) ==
    /\ FcView \in {"card", "finished"}
    /\ FcCommit([FcState EXCEPT
                    !.known = resetCategoryProgress(knownWords, category, confirmed),
                    !.idx = 0,
                    !.fin = FALSE])
    /\ UNCHANGED fcTimers
    /\ KnownWordsEffect(confirmed)
    /\ UNCHANGED outsideFc

FcInit ==
    /\ category = "null"
    /\ fcIndex = 0
    /\ flipped = FALSE
    /\ cardDetails = NoDetails
    /\ fcLoading = FALSE
    /\ isDeckFinished = FALSE
    /\ fcRequests = <<>>
    /\ fcTimers = <<>>

FcNext ==
    \/ \E c \in {"general", "transitions", "photo"} : FcSelectCategory(c)
    \/ FcBack
    \/ FcFlip
    \/ handleKnown
    \/ handleUnknown
    \/ FcAdvance
    \/ \E k \in 1..MaxPendingFetches, outcome \in DetailOutcomes : FcFetchDone(k, outcome)
    \/ \E confirmed \in BOOLEAN : handleReset(confirmed)

----------------------------------------------------------------------------
(* App, LoginScreen and AuthenticatedApp: events *)

\* the values of View
Views == {"dashboard", "plan", "realword", "photo", "spelling", "completetext",
          "flashcards"}

\* what may be typed or pasted into the name field
NameInputs == {<<>>, <<" ">>, <<"a">>, <<" ", "a", " ">>}

\* the state of FlashcardsActivity apart from the knownWords prop
fcLocal == <<category, fcIndex, flipped, cardDetails, fcLoading, isDeckFinished,
             fcRequests, fcTimers>>

\* FlashcardsActivity is unmounted: the next instance starts from the initial
\* values, and React drops the state updates that the requests and timeouts of
\* the unmounted instance still make
FcUnmount ==
    /\ category' = "null"
    /\ fcIndex' = 0
    /\ flipped' = FALSE
    /\ cardDetails' = NoDetails
    /\ fcLoading' = FALSE
    /\ isDeckFinished' = FALSE
    /\ fcRequests' = <<>>
    /\ fcTimers' = <<>>

\* PhotoGame, RealWordGame, FillBlankGame or CompleteTextGame is unmounted:
\* the cleanup of its timer effect clears the interval, and the next instance
\* starts from the initial values
PhotoUnmount ==
    /\ text' = 0
    /\ stage' = "writing"
    /\ result' = "null"
    /\ photoTimeLeft' = PhotoDuration
    /\ evalLog' = <<>>
    /\ photoEvent' = "init"
RwUnmount ==
    /\ words' = <<>>
    /\ currentIndex' = 0
    /\ score' = 0
    /\ gameOver' = FALSE
    /\ userResults' = <<>>
    /\ rwTimeLeft' = RwTimerStart
    /\ judgments' = <<>>
FbUnmount ==
    /\ data' = NoData
    /\ userInput' = <<>>
    /\ feedback' = "none"
    /\ fbLoading' = FALSE
    /\ fbPending' = FALSE
    /\ fbTimeLeft' = FbDuration
    /\ fbEvent' = "init"
CtUnmount ==
    /\ tokens' = <<>>
    /\ topic' = ""
    /\ ctLoading' = TRUE
    /\ gameState' = "playing"
    /\ ctPending' = FALSE
    /\ ctTimeLeft' = CtTimerStart
    /\ ctService' = "none"
    /\ ctEvent' = "init"

\* the activity shown has a content-service request in flight
RequestInFlight ==
    \/ currentView = "photo" /\ stage = "evaluating"
    \/ currentView = "spelling" /\ fbPending
    \/ currentView = "completetext" /\ ctPending
    \/ currentView = "flashcards" /\ fcRequests # <<>>

\* the view shown is unmounted; nothing cancels the request its activity has
\* in flight, and the module data keeps the order RealWordGame sorted it into
UnmountView ==
    /\ IF currentView = "photo" THEN PhotoUnmount ELSE UNCHANGED photoVars
    /\ IF currentView = "realword" THEN RwUnmount ELSE UNCHANGED rwVars
    /\ IF currentView = "spelling" THEN FbUnmount ELSE UNCHANGED fbVars
    /\ IF currentView = "completetext" THEN CtUnmount ELSE UNCHANGED ctVars
    /\ IF currentView = "flashcards" THEN FcUnmount ELSE UNCHANGED fcLocal
    /\ orphans' = IF RequestInFlight THEN orphans \cup {currentView} ELSE orphans
    /\ UNCHANGED dataVars

OrphanDone_applied(view) ==
    /\ view \in orphans
    /\ orphans' = orphans \ {view}
    /\ IF view = "photo" /\ currentView = "photo"
       THEN /\ stage' = "results"
            /\ result' = "evaluation"
            /\ UNCHANGED <<text, photoTimeLeft, evalLog, photoEvent>>
       ELSE UNCHANGED photoVars
    /\ UNCHANGED <<dataVars, rwVars, fbVars, ctVars, fcVars>>
    /\ UNCHANGED <<user, loginInput, currentView, completedDays, storage, timerVars>>

\* the request of an unmounted instance completes: its continuation calls the
\* state setters of that instance only, and React discards the updates of a
\* component that is no longer mounted
OrphanDone(view) ==
    /\ view \in orphans
    /\ orphans' = orphans \ {view}
    /\ UNCHANGED <<activityVars, fcVars>>
    /\ UNCHANGED <<user, loginInput, currentView, completedDays, storage, timerVars>>

\* AuthenticatedApp mounted for `name` over the storage `store`: the two lazy
\* initial states, then the two persistence effects of the first render
AuthenticatedMount(store, name) ==
    LET known == savedOrEmpty(store.words[name])
        days == savedOrEmpty(store.days[name])
    IN  [knownWords |-> known,
         completedDays |-> days,
         storage |-> setCompletedDaysItem(setKnownWordsItem(store, name, known),
                                          name, days)]

\* LoginScreen: onChange of the name field
LoginType(value) ==
    /\ user = NoUser
    /\ loginInput' = value
    /\ UNCHANGED <<user, storage, currentView, completedDays, fcVars, activityVars>>
    /\ UNCHANGED <<orphans, timerVars>>

\* LoginScreen: Enter, or a click on the disabled button, while input.trim()
\* is empty
LoginRefused ==
    /\ user = NoUser
    /\ trim(loginInput) = <<>>
    /\ UNCHANGED vars

handleLogin_untrimmed ==
    /\ user = NoUser
    /\ trim(loginInput) # <<>>
    /\ LET name == trim(loginInput)
           app == AuthenticatedMount(setCurrentUser(storage, loginInput), name)
       IN  /\ user' = name
           /\ storage' = app.storage
           /\ knownWords' = app.knownWords
           /\ completedDays' = app.completedDays
    /\ currentView' = "dashboard"
    /\ loginInput' = <<>>
    /\ UNCHANGED <<fcLocal, activityVars, orphans, timerVars>>

\* LoginScreen: Enter or 'Start Learning' with a name, and App.handleLogin;
\* AuthenticatedApp is mounted with key = user
handleLogin ==
    /\ user = NoUser
    /\ trim(loginInput) # <<>>
    /\ LET name == trim(loginInput)
           app == AuthenticatedMount(setCurrentUser(storage, name), name)
       IN  /\ user' = name
           /\ storage' = app.storage
           /\ knownWords' = app.knownWords
           /\ completedDays' = app.completedDays
    /\ currentView' = "dashboard"
    /\ loginInput' = <<>>
    /\ UNCHANGED <<fcLocal, activityVars, orphans, timerVars>>

\* 'Log Out': App.handleLogout; AuthenticatedApp and the activity it shows are
\* unmounted and LoginScreen is mounted
handleLogout ==
    /\ user # NoUser
    /\ storage' = removeCurrentUser(storage)
    /\ user' = NoUser
    /\ currentView' = "none"
    /\ knownWords' = <<>>
    /\ completedDays' = <<>>
    /\ loginInput' = <<>>
    /\ UnmountView
    /\ UNCHANGED timerVars

\* a sidebar item, a dashboard tile or link, 'Menu': setCurrentView(view) for
\* another view (for the view shown, React renders nothing again)
Navigate(view) ==
    /\ user # NoUser
    /\ view # currentView
    /\ currentView' = view
    /\ UnmountView
    /\ UNCHANGED <<knownWords, user, loginInput, storage, completedDays, timerVars>>

toggleDay_addOnly(day) ==
    /\ user # NoUser
    /\ currentView = "plan"
    /\ completedDays' = Append(completedDays, day)
    /\ storage' = setCompletedDaysItem(storage, user, completedDays')
    /\ UNCHANGED <<user, loginInput, currentView, fcVars, activityVars>>
    /\ UNCHANGED <<orphans, timerVars>>

\* the tick button of a day of the plan: toggleDay, then the effect on
\* [completedDays, STORAGE_KEY_DAYS]
toggleDay(day) ==
    /\ user # NoUser
    /\ currentView = "plan"
    /\ completedDays' = IF day \in Range(completedDays)
                        THEN SelectSeq(completedDays, LAMBDA d : d # day)
                        ELSE Append(completedDays, day)
    /\ storage' = setCompletedDaysItem(storage, user, completedDays')
    /\ UNCHANGED <<user, loginInput, currentView, fcVars, activityVars>>
    /\ UNCHANGED <<orphans, timerVars>>

----------------------------------------------------------------------------
(* Content service: a body that parses to something else than the object *)
(* asked for                                                              *)

\* JSON.parse(response.text || "{}") for an empty body, or for a body that is
\* an object without the fields asked for: {}; and for the body `null`: null
OtherBodies == {"{}", "null"}

\* a render throws and no error boundary catches it: React unmounts the whole
\* root, and the page stays blank until it is loaded again
RootCrash ==
    /\ currentView' = "crashed"
    /\ UnmountView

\* loadNew after its await, generateFillInBlank having resolved to `body`:
\* setData(res); setLoading(false). With null the view keeps showing
\* 'Generating sentence...' and nothing is in flight; with {} the render
\* calls getPrefix(undefined) and throws
FbLoadOther(body) ==
    /\ fbPending
    /\ IF body = "null"
       THEN /\ data' = NoData
            /\ fbLoading' = FALSE
            /\ fbPending' = FALSE
            /\ fbEvent' = "loadedNull"
            /\ UNCHANGED <<userInput, feedback, fbTimeLeft>>
            /\ UNCHANGED outsideFb
       ELSE /\ RootCrash
            /\ UNCHANGED <<user, loginInput, completedDays, storage, knownWords,
                           timerVars>>

\* loadLevel after its await, generateParagraphTask having resolved to
\* `body`: with {} setTopic(undefined) runs and data.text.split throws, with
\* null data.topic throws; the promise of loadLevel is rejected, and
\* setTokens and setLoading(false) are never reached
CtLoadOther(body) ==
    /\ ctPending
    /\ topic' = IF body = "null" THEN topic ELSE "undefined"
    /\ ctPending' = FALSE
    /\ ctService' = "body"
    /\ ctEvent' = "rejected"
    /\ UNCHANGED <<tokens, ctLoading, gameState, ctTimeLeft>>
    /\ UNCHANGED outsideCt

----------------------------------------------------------------------------
(* Timer, against the wall clock *)

\* the phases a second is divided into
PhasesPerSecond == 2
\* bound on the phases the clock is followed for
MaxElapsed == 364

\* <Timer duration={180}> of CompleteTextGame
CtDuration == 180

\* the views that mount a <Timer>, and the duration each gives it
TimedViews == {"photo", "spelling", "completetext"}
DurationOf(view) ==
    IF view = "photo" THEN PhotoDuration
    ELSE IF view = "spelling" THEN FbDuration
    ELSE CtDuration

\* no <Timer> is watched
NoTimer ==
    /\ timerDuration = 0
    /\ timerTimeLeft = 0
    /\ timerAge = 0
    /\ timerElapsed = 0
    /\ timerFinished = FALSE

\* a <Timer> as mounted: useState(duration), and the effect of the first
\* render sets the interval
TimerInit(duration) ==
    /\ timerDuration = duration
    /\ timerTimeLeft = duration
    /\ timerAge = 0
    /\ timerElapsed = 0
    /\ timerFinished = FALSE

\* the effect on [timeLeft, onFinish], run again with timeLeft after one of
\* the two has changed: the cleanup clears the interval that was pending at
\* `age`, then onFinish is called or a new interval of 1000 ms is set
timerEffect(timeLeft, age) ==
    /\ timerAge' = 0
    /\ timerFinished' = (timeLeft <= 0)

\* a phase passes and the pending interval is not due yet
TimerWait ==
    /\ timerTimeLeft > 0
    /\ timerElapsed < MaxElapsed
    /\ timerAge + 1 < PhasesPerSecond
    /\ timerAge' = timerAge + 1
    /\ timerElapsed' = timerElapsed + 1
    /\ UNCHANGED <<timerDuration, timerTimeLeft, timerFinished>>
    /\ UNCHANGED <<activityVars, fcVars, user, loginInput, currentView,
                   completedDays, orphans, storage>>

\* a phase passes and the interval is due: setTimeLeft(prev => prev - 1),
\* and the effect runs again
TimerFire ==
    /\ timerTimeLeft > 0
    /\ timerElapsed < MaxElapsed
    /\ timerAge + 1 = PhasesPerSecond
    /\ timerTimeLeft' = timerTimeLeft - 1
    /\ timerElapsed' = timerElapsed + 1
    /\ timerEffect(timerTimeLeft', timerAge + 1)
    /\ UNCHANGED timerDuration
    /\ UNCHANGED <<activityVars, fcVars, user, loginInput, currentView,
                   completedDays, orphans, storage>>

\* the parent renders again while the countdown runs (a key typed in the
\* textarea or the input): the onFinish it passes is a new function, so the
\* effect runs again
ParentRender ==
    /\ timerTimeLeft > 0
    /\ timerEffect(timerTimeLeft, timerAge)
    /\ UNCHANGED <<timerDuration, timerTimeLeft, timerElapsed>>
    /\ UNCHANGED <<activityVars, fcVars, user, loginInput, currentView,
                   completedDays, orphans, storage>>

TimerNext ==
    \/ TimerWait
    \/ TimerFire
    \/ ParentRender

----------------------------------------------------------------------------
(* Specifications: one per activity, the others not being mounted, and one *)
(* for the account and the progress store                                  *)

\* the components as constructed
EngineInit == DataInit /\ RwInit /\ PhotoInit /\ FbInit /\ CtInit /\ FcInit

\* App constructed when the page is loaded: the login prompt, or
\* AuthenticatedApp on its dashboard for the persisted user
AppInit ==
    \E loaded \in InitialStorages :
        /\ user = loaded.currentUser
        /\ loginInput = <<>>
        /\ orphans = {}
        /\ NoTimer
        /\ IF loaded.currentUser = NoUser
           THEN /\ storage = loaded
                /\ knownWords = <<>>
                /\ completedDays = <<>>
                /\ currentView = "none"
           ELSE /\ storage = AuthenticatedMount(loaded, loaded.currentUser).storage
                /\ knownWords = AuthenticatedMount(loaded, loaded.currentUser).knownWords
                /\ completedDays = AuthenticatedMount(loaded, loaded.currentUser).completedDays
                /\ currentView = "dashboard"

\* the returning user has opened the view of one activity
SessionIn(view) ==
    /\ user = UserA
    /\ loginInput = <<>>
    /\ storage = AuthenticatedMount(ReturningStorage, UserA).storage
    /\ knownWords = <<>>
    /\ completedDays = <<>>
    /\ currentView = view
    /\ orphans = {}

\* the activities as constructed, one of them shown, no <Timer> watched
InitIn(view) == EngineInit /\ SessionIn(view) /\ NoTimer

\* the activities as constructed and a timed view shown, its <Timer> watched
TimerInitIn(view) == EngineInit /\ SessionIn(view) /\ TimerInit(DurationOf(view))

Init == EngineInit /\ AppInit

AppNext ==
    \/ \E value \in NameInputs : LoginType(value)
    \/ LoginRefused
    \/ handleLogin
    \/ handleLogout
    \/ \E view \in Views : Navigate(view)
    \/ \E day \in PlanDays : toggleDay(day)
    \/ (currentView = "flashcards" /\ FcNext)
    \/ \E view \in Views : OrphanDone(view)

SpecPhoto     == InitIn("photo") /\ [][PhotoNext]_vars
SpecRealWord  == InitIn("realword") /\ [][RwNext]_vars
\* the browser keeps firing the interval set by the timer effect
SpecRealWordLive == InitIn("realword") /\ [][RwNext]_vars /\ WF_vars(RwTick)
SpecFillBlank == InitIn("spelling") /\ [][FbNext]_vars
\* the target lengths of the run under fairness: the empty word, a word whose
\* prefix is one letter and a word whose prefix is two letters
LiveTargetLens == {0, 3, 8}

\* the responses of the run under fairness: parsed bodies naming a word of
\* one of these lengths
FbLiveResponses ==
    {res \in FbResponses :
        res.sentence = "generated" /\ Len(res.missingWord) \in LiveTargetLens}

\* the steps of FillBlankGame, with the responses of the run under fairness
FbLiveNext ==
    \/ FbMount
    \/ \E res \in FbLiveResponses : FbLoadDone(res)
    \/ FbType
    \/ FbSubmit
    \/ FbTick
    \/ FbNextSentence

\* the browser keeps firing the interval set by the Timer's effect
SpecFillBlankLive == InitIn("spelling") /\ [][FbLiveNext]_vars /\ WF_vars(FbTick)
SpecParagraph == InitIn("completetext") /\ [][CtNext]_vars
\* the browser keeps firing the interval set by the Timer's effect
SpecParagraphLive == InitIn("completetext") /\ [][CtNext]_vars /\ WF_vars(CtTick)
SpecFlashcards == InitIn("flashcards") /\ [][FcNext]_vars
\* the account, the progress store and the flashcards; the other activities
\* are shown but take no step
SpecApp == Init /\ [][AppNext]_vars

\* the user moves between the views while PhotoGame and CompleteTextGame
\* run; the other activities are shown but take no step
NavNext ==
    \/ \E view \in Views : Navigate(view)
    \/ \E view \in Views : OrphanDone(view)
    \/ (currentView = "photo" /\ PhotoNext)
    \/ (currentView = "completetext" /\ CtNext)
SpecNavigation == InitIn("dashboard") /\ [][NavNext]_vars

\* the <Timer> of one of the three timed views, phase by phase
\* FillBlankGame or CompleteTextGame, the service answering with any body
ServiceInit == \E view \in {"spelling", "completetext"} : InitIn(view)
ServiceNext ==
    \/ (currentView = "spelling" /\ FbNext)
    \/ (currentView = "spelling" /\ \E body \in OtherBodies : FbLoadOther(body))
    \/ (currentView = "completetext" /\ CtNext)
    \/ (currentView = "completetext" /\ \E body \in OtherBodies : CtLoadOther(body))
SpecService == ServiceInit /\ [][ServiceNext]_vars

TimedInit == \E view \in TimedViews : TimerInitIn(view)
SpecTimer == TimedInit /\ [][TimerNext]_vars

----------------------------------------------------------------------------
(* Photo Description: claims *)

\* C1: within one Photo Description session evaluatePhotoDescription is
\* invoked at most once, whatever the order of manual submit, countdown
\* expiry and completion of the request.
C1_EvaluatedAtMostOnce == Len(evalLog) <= 1

\* C6: when the countdown expires with fewer than 10 characters written, the
\* engine goes to the Timeout stage and that expiry invokes no evaluation.
C6_ShortTextTimesOut ==
    [][(photoEvent' = "expire" /\ text < 10)
          => (stage' = "timeout" /\ evalLog' = evalLog)]_vars

C6_Witness ==
    /\ photoEvent = "expire"
    /\ text < 10
    /\ stage = "timeout"
    /\ evalLog = <<>>

\* C7: manual and automatic submit share the minimum length 10: the submit
\* button is enabled exactly from 10 characters on, and a countdown that
\* expires with at least 10 characters sends the text for evaluation.
C7_SameMinimumLength ==
    /\ SubmitEnabled(text) <=> text >= 10
    /\ (photoEvent = "expire" /\ text >= 10) => stage = "evaluating"

\* C8 as stated: the stage changes only along Writing -> Evaluating,
\* Evaluating -> Results and Writing -> Timeout; Results and Timeout are
\* never left.
C8_OriginalTransitions ==
    [][stage' # stage =>
          <<stage, stage'>> \in {<<"writing", "evaluating">>,
                                 <<"evaluating", "results">>,
                                 <<"writing", "timeout">>}]_vars

\* C8 amended: besides Writing -> Evaluating, Evaluating -> Results and
\* Writing -> Timeout, 'Try Again' leads from Timeout back to Writing; Results
\* is never left while it holds a truthy evaluation, and is left (to
\* Evaluating or Timeout) only when the evaluation received is falsy, the
\* case in which the writing view is rendered again.
C8_Transitions ==
    [][stage' # stage =>
          \/ <<stage, stage'>> \in {<<"writing", "evaluating">>,
                                    <<"evaluating", "results">>,
                                    <<"writing", "timeout">>}
          \/ stage = "timeout" /\ stage' = "writing" /\ photoEvent' = "tryAgain"
          \/ /\ stage = "results"
             /\ ~Truthy(result)
             /\ stage' \in {"evaluating", "timeout"}]_vars

C8_Witness ==
    /\ photoEvent = "tryAgain"
    /\ stage = "writing"
    /\ photoTimeLeft = PhotoDuration

\* C19 as stated: after a failed evaluation call the session is in Results
\* with a fallback evaluation of score 0 whose feedback text, corrections
\* list and better version are all empty.
C19_EmptyFallback ==
    result = "fallback" =>
        /\ PhotoView(stage, result) = "results"
        /\ FallbackEvaluation.score = 0
        /\ FallbackEvaluation.feedback = ""
        /\ FallbackEvaluation.corrections = <<>>
        /\ FallbackEvaluation.betterVersion = ""

\* C19 amended: after a failed evaluation call the session is in Results
\* with a fallback evaluation of score 0, the feedback text 'Error connecting
\* to AI tutor.', an empty corrections list and an empty better version.
C19_FallbackEvaluation ==
    result = "fallback" =>
        /\ PhotoView(stage, result) = "results"
        /\ DOMAIN FallbackEvaluation = {"score", "feedback", "corrections", "betterVersion"}
        /\ FallbackEvaluation.score = 0
        /\ FallbackEvaluation.feedback = "Error connecting to AI tutor."
        /\ FallbackEvaluation.corrections = <<>>
        /\ FallbackEvaluation.betterVersion = ""

\* the request sent at the countdown's expiry has failed
C19_Witness ==
    /\ result = "fallback"
    /\ stage = "results"
    /\ photoEvent = "evalDone"
    /\ evalLog = <<"timeout">>

----------------------------------------------------------------------------
(* Real-Word Judgment: claims *)

\* C2: a Real-Word session that has loaded its items reaches the Finished
\* state as long as the timer keeps ticking, even without any judgment.
C2_SessionFinishes == RwLoaded ~> gameOver

C2_Witness ==
    /\ RwLoaded
    /\ gameOver
    /\ \A i \in 1..Len(judgments) : judgments[i] = "none"

\* C3: the result log holds one entry per presented item, in presentation
\* order: as many entries as the index while an item is presented, one per
\* item of the session when it is finished, none twice and none skipped; the
\* session has SliceLen items of each kind the lists can provide.
C3_LogMatchesItems ==
    /\ RwLoaded =>
          Len(words) = Min(SliceLen, Len(realWords)) + Min(SliceLen, Len(fakeWords))
    /\ (RwLoaded /\ ~gameOver) => Len(userResults) = currentIndex
    /\ gameOver => Len(userResults) = Len(words)
    /\ Len(userResults) <= Len(words)
    /\ \A i \in 1..Len(userResults) :
          /\ userResults[i].word = words[i].text
          /\ userResults[i].isReal = words[i].isReal
    /\ \A i, j \in 1..Len(userResults) :
          userResults[i].word = userResults[j].word => i = j

C3_Witness ==
    /\ gameOver
    /\ Len(userResults) = 2 * SliceLen
    /\ \E i \in 1..Len(judgments) : judgments[i] = "none"
    /\ \E i \in 1..Len(judgments) : judgments[i] # "none"

\* C4: the score is the number of log entries with correct = true, and an
\* entry is correct exactly when the user judged the item and the judgment
\* equals the item's real/fake flag.
C4_ScoreCountsMatches ==
    /\ Len(judgments) = Len(userResults)
    /\ score = Cardinality({i \in 1..Len(userResults) : userResults[i].correct})
    /\ \A i \in 1..Len(userResults) :
          userResults[i].correct <=>
              /\ judgments[i] # "none"
              /\ (judgments[i] = "yes") <=> words[i].isReal

\* table (real) answered yes, then blicket (fake) answered no: 2 of 2
C4_Witness ==
    /\ Len(userResults) = 2
    /\ judgments = <<"yes", "no">>
    /\ userResults = <<[word |-> "table", isReal |-> TRUE, correct |-> TRUE],
                       [word |-> "blicket", isReal |-> FALSE, correct |-> TRUE]>>
    /\ score = 2

\* C5: an item ended by its countdown is recorded with correct = false and
\* leaves the score as it was, for a real word as for a non-word.
C5_TimeoutIsIncorrect ==
    [][(Len(judgments') = Len(judgments) + 1 /\ Last(judgments') = "none")
          => /\ Len(userResults') = Len(userResults) + 1
             /\ Last(userResults').word = words[currentIndex + 1].text
             /\ Last(userResults').correct = FALSE
             /\ score' = score]_vars

C5_Witness ==
    /\ judgments # <<>>
    /\ Last(judgments) = "none"
    /\ Last(userResults).isReal
    /\ ~Last(userResults).correct
    /\ \E i \in 1..Len(judgments) :
          judgments[i] = "none" /\ ~userResults[i].isReal /\ ~userResults[i].correct

----------------------------------------------------------------------------
(* Fill-in-blank: claims *)

\* the two characters are the same letter up to case, or the same character
SameLetter(c, d) ==
    \/ c = d
    \/ \E k \in 1..Len(LowerLetters) : {c, d} = {LowerLetters[k], UpperLetters[k]}

\* attempt, without the spaces around it, spells word up to case
SpellsWord(attempt, word) ==
    \E i \in 1..(Len(attempt) + 1), j \in 0..Len(attempt) :
        /\ j - i + 1 = Len(word)
        /\ \A k \in 1..(i - 1) : attempt[k] = " "
        /\ \A k \in (j + 1)..Len(attempt) : attempt[k] = " "
        /\ j >= i => (attempt[i] # " " /\ attempt[j] # " ")
        /\ \A k \in 1..Len(word) : SameLetter(attempt[i + k - 1], word[k])

\* the prefix shown before the input
ShownPrefix == getPrefix(data.missingWord)

\* C9: grading yields 'correct' exactly when prefix+input, trimmed and
\* lower-cased, is the lower-cased target, else 'incorrect'; the input and
\* its upper-cased form are graded alike, and so are a submit and a timeout.
C9_GradingRule ==
    FbShown =>
        LET word == data.missingWord
            grade == checkAnswerResult(word, userInput, FALSE)
        IN  /\ grade = "correct" <=> SpellsWord(ShownPrefix \o userInput, word)
            /\ grade = "incorrect" <=> ~SpellsWord(ShownPrefix \o userInput, word)
            /\ \A isTimeout \in BOOLEAN :
                  /\ checkAnswerResult(word, userInput, isTimeout) = grade
                  /\ checkAnswerResult(word, toUpperCase(userInput), isTimeout) = grade
            /\ feedback # "none" => feedback = grade

\* elephant, prefix el, input ephant: correct
C9_Witness ==
    /\ FbShown
    /\ data.missingWord = <<"e", "l", "e", "p", "h", "a", "n", "t">>
    /\ ShownPrefix = <<"e", "l">>
    /\ userInput = <<"e", "p", "h", "a", "n", "t">>
    /\ feedback = "correct"

\* C10: for a target word of length n >= 1 the visible prefix is its first
\* max(1, floor(n/3)) characters: a non-empty prefix of the target.
C10_PrefixLength ==
    (FbShown /\ Len(data.missingWord) >= 1) =>
        LET n == Len(data.missingWord)
            p == ShownPrefix
        IN  /\ Len(p) >= 1
            /\ Len(p) <= n
            /\ \A k \in 1..Len(p) : p[k] = data.missingWord[k]
            /\ Len(p) = 1 \/ 3 * Len(p) <= n
            /\ 3 * (Len(p) + 1) > n
            /\ n = 8 => Len(p) = 2

C10_Witness ==
    /\ FbShown
    /\ Len(data.missingWord) = 9
    /\ Len(ShownPrefix) = 3

\* the state of the Fill-in-blank engine, as rendered
FbPhase ==
    IF ~FbShown THEN "Loading"
    ELSE IF feedback = "none" THEN "Answering" ELSE "Answered"

\* C11: the engine moves only along Loading -> Answering -> Answered and, by
\* 'Next' only, Answered -> Loading; while a prompt is Answered its outcome,
\* its input and the prompt stay as they are, countdown expiry included; the
\* Answering state entered from Loading has an empty input and no outcome.
C11_Transitions ==
    [][/\ FbPhase' # FbPhase =>
              <<FbPhase, FbPhase'>> \in {<<"Loading", "Answering">>,
                                         <<"Answering", "Answered">>,
                                         <<"Answered", "Loading">>}
       /\ (FbPhase = "Answered" /\ FbPhase' = "Loading") => fbEvent' = "next"
       /\ (FbPhase = "Answered" /\ fbEvent' # "next") =>
              /\ FbPhase' = "Answered"
              /\ feedback' = feedback
              /\ userInput' = userInput
              /\ data' = data
       /\ (FbPhase = "Loading" /\ FbPhase' = "Answering") =>
              /\ userInput' = <<>>
              /\ feedback' = "none"
              /\ fbTimeLeft' = FbDuration
       /\ FbPhase' = "Answered" => feedback' \in {"correct", "incorrect"}]_vars

\* the Answering state of a second prompt, reached by 'Next'
C11_Witness ==
    /\ fbEvent = "reloaded"
    /\ FbPhase = "Answering"
    /\ userInput = <<>>
    /\ feedback = "none"

----------------------------------------------------------------------------
(* Paragraph Completion: claims *)

\* the character is a letter: its two cases differ
IsLetter(c) == toLowerCase(<<c>>) # toUpperCase(<<c>>)

\* isCorrect of the token is undefined
Ungraded(t) == "isCorrect" \notin DOMAIN t

\* a and b are the same string up to the case of their letters
EqualIgnoringCase(a, b) ==
    /\ Len(a) = Len(b)
    /\ \A k \in 1..Len(a) : SameLetter(a[k], b[k])

\* C13: a blank token is purely alphabetic, longer than 3 characters, and its
\* prefix is a non-empty strict prefix of its full word; a token that is not
\* a blank has an empty prefix and an answer that stays empty.
C13_TokenShape ==
    \A i \in 1..Len(tokens) :
        LET t == tokens[i]
        IN  IF t.isBlank
            THEN /\ \A k \in 1..Len(t.fullWord) : IsLetter(t.fullWord[k])
                 /\ Len(t.fullWord) > 3
                 /\ Len(t.prefix) >= 1
                 /\ Len(t.prefix) < Len(t.fullWord)
                 /\ \A k \in 1..Len(t.prefix) : t.prefix[k] = t.fullWord[k]
            ELSE /\ t.prefix = <<>>
                 /\ t.userAnswer = <<>>

\* Bees blanked as Be__, next to 4ever and Don't, which are never blanks
C13_Witness ==
    /\ ctEvent = "loaded"
    /\ CtPhase = "Playing"
    /\ tokens[1].isBlank
    /\ tokens[1].fullWord = <<"B", "e", "e", "s">>
    /\ tokens[1].prefix = <<"B", "e">>
    /\ \E i, j \in 1..Len(tokens) :
          /\ tokens[i].fullWord = <<"4", "e", "v", "e", "r">>
          /\ tokens[j].fullWord = <<"D", "o", "n", "'", "t">>

\* C14 as stated: outside Review (Loading and Playing, also after 'Next
\* paragraph') isCorrect is undefined for every token held.
C14_UngradedOutsideReview ==
    CtPhase # "Review" => \A i \in 1..Len(tokens) : Ungraded(tokens[i])

\* C14 amended: in Playing isCorrect is undefined for every token, also after
\* 'Next paragraph'; in Loading the engine holds no token before the first
\* paragraph and, after 'Next paragraph', the tokens of the previous paragraph
\* as graded in Review, until the new paragraph replaces them.
C14_UngradedWhilePlaying ==
    /\ CtPhase = "Playing" => \A i \in 1..Len(tokens) : Ungraded(tokens[i])
    /\ (CtPhase = "Loading" /\ ctEvent # "next") => tokens = <<>>
    /\ (CtPhase = "Loading" /\ ctEvent = "next") =>
          \A i \in 1..Len(tokens) : tokens[i].isBlank <=> ~Ungraded(tokens[i])

\* a second paragraph, with blanks, being played
C14_Witness ==
    /\ ctEvent = "reloaded"
    /\ CtPhase = "Playing"
    /\ \E i \in 1..Len(tokens) : tokens[i].isBlank
    /\ \A i \in 1..Len(tokens) : Ungraded(tokens[i])

\* g is the token t after grading: a token that is not a blank is the same
\* token, still ungraded; a blank keeps its fields and is correct exactly
\* when prefix+userAnswer is fullWord up to case
GradedAs(t, g) ==
    IF ~t.isBlank
    THEN g = t /\ Ungraded(g)
    ELSE /\ DOMAIN g = DOMAIN t \cup {"isCorrect"}
         /\ \A f \in DOMAIN t : g[f] = t[f]
         /\ g.isCorrect <=> EqualIgnoringCase(t.prefix \o t.userAnswer, t.fullWord)

\* C15: a submit, manual or by the countdown, leaves every token that is not
\* a blank unchanged and ungraded, and gives every blank isCorrect = true
\* exactly when prefix+userAnswer equals fullWord ignoring case, whatever the
\* other tokens, the topic and the remaining time.
C15_Grading ==
    [][ctEvent' \in {"submit", "timeUp"} =>
          /\ Len(tokens') = Len(tokens)
          /\ \A i \in 1..Len(tokens) : GradedAs(tokens[i], tokens'[i])]_vars

\* graded at expiry: Bees answered ES (correct), make answered ke followed by
\* a space (incorrect), honey left empty (incorrect)
C15_Witness ==
    /\ ctEvent = "timeUp"
    /\ CtPhase = "Review"
    /\ topic = "Bees"
    /\ \A i \in {1, 3, 5} : tokens[i].isBlank
    /\ tokens[1].userAnswer = <<"E", "S">> /\ tokens[1].isCorrect
    /\ tokens[3].userAnswer = <<"k", "e", " ">> /\ ~tokens[3].isCorrect
    /\ tokens[5].userAnswer = <<>> /\ ~tokens[5].isCorrect
    /\ Ungraded(tokens[2])

\* the positions of the blanks graded incorrect
WrongBlanks ==
    {i \in 1..Len(tokens) :
        tokens[i].isBlank /\ ~Ungraded(tokens[i]) /\ ~tokens[i].isCorrect}

\* the k-th position of WrongBlanks, in paragraph order
WrongBlank(k) ==
    CHOOSE i \in WrongBlanks : Cardinality({j \in WrongBlanks : j < i}) = k - 1

\* C16: in Review the corrections list holds exactly the blanks graded
\* incorrect, in paragraph order, each as prefix+userAnswer and fullWord, no
\* correct blank and no other token; and no answer changes while in Review.
C16_Corrections ==
    /\ [](CtPhase = "Review" =>
            /\ \A i \in 1..Len(tokens) : tokens[i].isBlank => ~Ungraded(tokens[i])
            /\ Len(Corrections) = Cardinality(WrongBlanks)
            /\ \A k \in 1..Len(Corrections) :
                  /\ Corrections[k].submitted =
                        tokens[WrongBlank(k)].prefix \o tokens[WrongBlank(k)].userAnswer
                  /\ Corrections[k].correct = tokens[WrongBlank(k)].fullWord)
    /\ [][CtPhase = "Review" => tokens' = tokens]_vars

\* Bees answered es followed by a space, make answered correctly, honey
\* left empty: two corrections, Bees before honey
C16_Witness ==
    /\ CtPhase = "Review"
    /\ topic = "Bees"
    /\ \A i \in {1, 3, 5} : tokens[i].isBlank
    /\ tokens[3].isCorrect
    /\ Corrections =
          <<[submitted |-> <<"B", "e", "e", "s", " ">>, correct |-> <<"B", "e", "e", "s">>],
            [submitted |-> <<"h", "o">>, correct |-> <<"h", "o", "n", "e", "y">>]>>

RECURSIVE Flatten(_)
\* the strings of the sequence, one after the other
Flatten(ws) == IF ws = <<>> THEN <<>> ELSE Head(ws) \o Flatten(Tail(ws))

\* the word has no space and no punctuation mark of the split pattern
NoDelimiter(w) == \A k \in 1..Len(w) : ~IsSpace(w[k]) /\ ~IsPunct(w[k])

\* C18: when the paragraph request fails, the engine holds the topic
\* 'Technology' and the tokens of the built-in paragraph (its words, spaces
\* and punctuation marks in order), and the end of the loading is Playing.
C18_FallbackParagraph ==
    ctService = "error" =>
        /\ topic = "Technology"
        /\ Flatten([i \in 1..Len(tokens) |-> tokens[i].fullWord]) = FallbackText
        /\ \A i \in 1..Len(tokens) :
              \/ NoDelimiter(tokens[i].fullWord)
              \/ tokens[i].fullWord \in {<<" ">>, <<".">>, <<",">>}
        /\ Len(tokens) = 87
        /\ ctEvent \in {"loaded", "reloaded"} =>
              CtPhase = "Playing" /\ ctTimeLeft = CtTimerStart

\* the first request fails: Technology, with revolutionized blanked
C18_Witness ==
    /\ ctService = "error"
    /\ ctEvent = "loaded"
    /\ CtPhase = "Playing"
    /\ topic = "Technology"
    /\ tokens[1].fullWord = <<"T", "e", "c", "h", "n", "o", "l", "o", "g", "y">>
    /\ tokens[5].isBlank
    /\ tokens[5].prefix = <<"r", "e", "v", "o", "l", "u", "t">>


----------------------------------------------------------------------------
(* Flashcards: claims *)

\* the bounds of the model leave room for n more requests, one more mark and
\* one more advance
FcRoom(n) ==
    /\ Len(fcRequests) + n <= MaxPendingFetches
    /\ Len(knownWords) < MaxKnown
    /\ Len(fcTimers) < MaxPendingTimers

\* the card view offers flip, 'I Know It', 'Review' and 'Categories', and the
\* category view offers the three categories
FcControlsPossible ==
    /\ (FcView = "card" /\ FcRoom(1)) =>
          /\ ENABLED FcFlip
          /\ ENABLED handleKnown
          /\ ENABLED handleUnknown
          /\ ENABLED FcBack
    /\ (FcView = "categories" /\ FcRoom(2)) =>
          \A c \in {"general", "transitions", "photo"} : ENABLED FcSelectCategory(c)

\* a word-detail request that fails completes with the two placeholder
\* strings and with loading false
FcFailureCompletes ==
    \A k \in 1..MaxPendingFetches :
        FcFetchDone(k, "error") =>
            /\ cardDetails' # NoDetails
            /\ cardDetails'.translation = "..."
            /\ cardDetails'.example = "Could not load example."
            /\ fcLoading' = FALSE

\* C20: a failure of the word-detail fetch never blocks the Flashcard engine:
\* the fetch completes with placeholder strings, the card leaves its loading
\* state, and flip, mark known, mark unknown and category selection remain
\* possible.
C20_FailureDoesNotBlock == []FcControlsPossible /\ [][FcFailureCompletes]_vars

\* a card whose request failed has been flipped: its back shows the
\* placeholders
C20_Witness ==
    /\ FcView = "card"
    /\ flipped
    /\ ~fcLoading
    /\ cardDetails # NoDetails
    /\ cardDetails.translation = "..."
    /\ cardDetails.for = CardAt(Deck(category, knownWords), fcIndex)

\* C23: whenever a category is selected whose unfiltered deck is not empty and
\* whose filtered deck is empty, the engine is in the 'deck finished' state
\* (after every sequence of operations, a declined reset included); and 'deck
\* finished' is never shown while the filtered deck is not empty.
C23_DeckFinished ==
    /\ (/\ category # "null"
        /\ Len(FullDeck(category)) > 0
        /\ Len(Deck(category, knownWords)) = 0) => isDeckFinished
    /\ FcView = "finished" => Len(Deck(category, knownWords)) = 0

\* C24: during one Flashcard session the word-detail fetch is invoked at most
\* once for each (card, category) pair. Each word belongs to one category, so
\* in particular no two calls for one word are in flight together.
C24_FetchedOnce ==
    \A i, j \in 1..Len(fcRequests) : i # j => fcRequests[i] # fcRequests[j]

\* a pending advance of 'Review' runs while the index and the length of the
\* deck are still those of the click, the index being one of the deck
FcAdvanceInPlace ==
    /\ FcAdvance
    /\ category # "null"
    /\ Head(fcTimers).length = Len(Deck(category, knownWords))
    /\ Head(fcTimers).index = fcIndex
    /\ fcIndex < Len(Deck(category, knownWords))

\* C25: 'mark unknown' on the card at index i of an active deck of n cards
\* makes the card at index (i+1) mod n the displayed card, the last card
\* wrapping to the first, and leaves the known words and the active deck
\* unchanged.
C25_MarkUnknown ==
    /\ [][handleUnknown =>
              /\ knownWords' = knownWords
              /\ Deck(category', knownWords') = Deck(category, knownWords)]_vars
    /\ [][FcAdvanceInPlace =>
              /\ knownWords' = knownWords
              /\ Deck(category', knownWords') = Deck(category, knownWords)
              /\ CardAt(Deck(category', knownWords'), fcIndex')
                    = Deck(category, knownWords)
                          [((fcIndex + 1) % Len(Deck(category, knownWords))) + 1]]_vars

\* 'Review' on the last of three cards has brought back the first one
C25_Witness ==
    /\ category = "general"
    /\ knownWords = <<>>
    /\ fcIndex = 0
    /\ fcTimers = <<>>
    /\ fcRequests = <<"river", "table">>

----------------------------------------------------------------------------
(* Progress store and account: claims *)

\* the known words persisted for the user of the sessions
StoredWords(store) == Range(savedOrEmpty(store.words[UserA]))

\* the word of the card shown by the card view
DisplayedWord == CardAt(Deck(category, knownWords), fcIndex)

\* this step is a confirmed reset of a category that contains the word
ResetOf(word) ==
    /\ category # "null"
    /\ word \in Range(FullDeck(category))
    /\ handleReset(TRUE)

\* C21: 'mark known' adds exactly the word of the displayed card to the known
\* words, which removes that card from the active deck; and a known word stays
\* known, in memory while the user is logged in and in the store always,
\* through every step that is not a confirmed reset of a category containing
\* it.
C21_MarkKnown ==
    /\ [][(Len(knownWords') > Len(knownWords) /\ handleKnown) =>
              /\ Range(knownWords') = Range(knownWords) \cup {DisplayedWord}
              /\ Deck(category', knownWords')
                    = SelectSeq(Deck(category, knownWords),
                                LAMBDA w : w # DisplayedWord)]_vars
    /\ [][\A word \in Range(knownWords) :
              \/ word \in Range(knownWords')
              \/ ResetOf(word)
              \/ handleLogout]_vars
    /\ [][\A word \in StoredWords(storage) :
              \/ word \in StoredWords(storage')
              \/ ResetOf(word)]_vars

\* two words marked known are still known on the plan, where a day was ticked
C21_Witness ==
    /\ currentView = "plan"
    /\ knownWords = <<"table", "however">>
    /\ completedDays = <<1>>

\* C22: a confirmed 'reset category' removes from the known words exactly
\* those of that category's deck and leaves every other known word and the
\* completed days unchanged; a declined one leaves the known words unchanged.
C22_ResetCategory ==
    [][\A confirmed \in BOOLEAN :
          (category # "null" /\ category' = category /\ fcIndex' = 0
             /\ handleReset(confirmed)) =>
              /\ knownWords' =
                    IF confirmed
                    THEN SelectSeq(knownWords,
                                   LAMBDA w : w \notin Range(FullDeck(category)))
                    ELSE knownWords
              /\ StoredWords(storage') = Range(knownWords')
              /\ completedDays' = completedDays
              /\ storage'.days = storage.days]_vars

\* a reset was declined on the 'deck finished' screen of the transition
\* words: both known words are still known
C22_Witness ==
    /\ FcView = "empty"
    /\ category = "transitions"
    /\ knownWords = <<"table", "however">>
    /\ completedDays = <<1>>

\* while a user is logged in, the three items of the storage are the active
\* user and the two fields in memory
StoreInSync ==
    user # NoUser =>
        /\ storage.currentUser = user
        /\ storage.words[user] = stringify(knownWords)
        /\ storage.days[user] = stringify(completedDays)

\* a step in which the same user stays logged in
SameSession == user # NoUser /\ user' = user

\* C26: after every mutation of the known words or of the completed days the
\* record persisted under the active user's key for that field equals the
\* value in memory; a mutation of one field never changes the persisted value
\* of the other, and the records of another user are never changed.
C26_Persisted ==
    /\ []StoreInSync
    /\ [][(SameSession /\ knownWords' # knownWords) => storage'.days = storage.days]_vars
    /\ [][(SameSession /\ completedDays' # completedDays)
             => storage'.words = storage.words]_vars
    /\ [][/\ storage'.words[UserB] = storage.words[UserB]
          /\ storage'.days[UserB] = storage.days[UserB]]_vars

\* a word was marked known and a day ticked: both are in the store
C26_Witness ==
    /\ user = UserA
    /\ storage.words[UserA] = stringify(<<"however">>)
    /\ storage.days[UserA] = stringify(<<1>>)

\* the login prompt is shown, and no view of AuthenticatedApp can be opened
AtLoginPrompt ==
    /\ user = NoUser
    /\ currentView = "none"
    /\ \A view \in Views : ~ENABLED Navigate(view)
    /\ \A day \in PlanDays : ~ENABLED toggleDay(day)
    /\ category = "null"

\* C27: when no active user name is persisted the login prompt is shown and
\* no activity is reachable; a login with an empty or whitespace-only name is
\* blocked and changes nothing; a successful login persists the trimmed name
\* as the active user; logout removes the active user and returns to the
\* login prompt.
C27_Login ==
    /\ [](storage.currentUser = NoUser => AtLoginPrompt)
    /\ []((user = NoUser /\ trim(loginInput) = <<>>) => ~ENABLED handleLogin)
    /\ [][LoginRefused => UNCHANGED vars]_vars
    /\ [][handleLogin =>
              /\ user' = trim(loginInput)
              /\ user' # NoUser
              /\ storage'.currentUser = user'
              /\ currentView' = "dashboard"]_vars
    /\ [][handleLogout =>
              /\ storage'.currentUser = NoUser
              /\ user' = NoUser
              /\ currentView' = "none"]_vars

\* the user has logged in with a name typed between spaces, ticked a day and
\* logged out: the prompt is shown again
C27_Witness ==
    /\ user = NoUser
    /\ storage.currentUser = NoUser
    /\ storage.days[UserA] = stringify(<<1>>)
    /\ loginInput = <<" ", "a", " ">>

----------------------------------------------------------------------------
(* Navigation and the Timer: claims *)

\* everything but the record of the requests of unmounted instances
AllButOrphans ==
    <<activityVars, fcVars, user, loginInput, currentView, completedDays,
      storage, timerVars>>

C30_ExpiryOnTime ==
    timerDuration > 0 =>
        timerElapsed = (timerDuration - timerTimeLeft) * PhasesPerSecond + timerAge

----------------------------------------------------------------------------
(* Content service, flashcards, progress store: further claims *)

\* a request of the activity shown has been made and has returned
FbReturned == currentView = "spelling" /\ fbEvent # "init" /\ ~fbPending
CtReturned == currentView = "completetext" /\ ctEvent # "init" /\ ~ctPending

\* C31: whatever the content-service call resolved to, no render has crashed
\* the page; once the request of FillBlankGame has returned the engine is out
\* of Loading with a prompt, and once the request of CompleteTextGame has
\* returned the engine is out of Loading.
C31_NoOutcomeIsFatal ==
    /\ currentView # "crashed"
    /\ FbReturned => FbShown
    /\ CtReturned => CtPhase # "Loading"

\* C32: whenever the card view is not loading and holds card details, they
\* are the details fetched for the card it displays, in whatever order the
\* requests in flight complete.
C32_DetailsOfDisplayedCard ==
    (FcView = "card" /\ ~fcLoading /\ cardDetails # NoDetails)
        => cardDetails.for = DisplayedWord

\* the active deck of the category selected
ActiveDeck == Deck(category, knownWords)

\* C33 as first stated: whenever a category is selected and its active deck
\* is not empty, the card index is smaller than the deck length.
C33_IndexInRange ==
    (category # "null" /\ Len(ActiveDeck) > 0) => fcIndex < Len(ActiveDeck)

\* C33: whenever a category is selected and its active deck is not empty, the
\* card displayed is a card of the active deck: the card at the card index
\* when the index is smaller than the deck length, the first card otherwise.
C33_DisplayedCardInDeck ==
    (category # "null" /\ Len(ActiveDeck) > 0) =>
        /\ fcIndex >= 0
        /\ DisplayedWord \in Range(ActiveDeck)
        /\ fcIndex >= Len(ActiveDeck) => DisplayedWord = ActiveDeck[1]

\* a delayed advance has fired after a card was marked known: the index is
\* the length of the deck that is left
C33_Witness ==
    /\ FcView = "card"
    /\ category = "general"
    /\ Len(ActiveDeck) = 2
    /\ fcIndex = 2
    /\ fcTimers = <<>>

\* the progress records of the store
Records(store) == <<store.words, store.days>>

\* C34: progress is kept per user and outlives the session: no step changes
\* the records of the other user; logout deletes no record and leaves the
\* active user's records equal to the progress in memory; nothing changes a
\* record while nobody is logged in; and a login under a name that has
\* records starts from exactly the known words and completed days recorded.
C34_ProgressPerUser ==
    /\ [][/\ storage'.words[UserB] = storage.words[UserB]
          /\ storage'.days[UserB] = storage.days[UserB]]_vars
    /\ [][(user # NoUser /\ user' = NoUser) =>
              /\ Records(storage') = Records(storage)
              /\ storage'.words[user] = stringify(knownWords)
              /\ storage'.days[user] = stringify(completedDays)]_vars
    /\ [][(user = NoUser /\ user' = NoUser) =>
              Records(storage') = Records(storage)]_vars
    /\ [][(user = NoUser /\ user' # NoUser) =>
              /\ storage.words[user'] # NoItem => knownWords' = parse(storage.words[user'])
              /\ storage.days[user'] # NoItem => completedDays' = parse(storage.days[user'])
              /\ storage'.words[user'] = stringify(knownWords')
              /\ storage'.days[user'] = stringify(completedDays')]_vars

\* the user has logged out with a known word and a ticked day, and has typed
\* the name again
C34_Witness ==
    /\ user = NoUser
    /\ loginInput = <<"a">>
    /\ storage.words[UserA] = stringify(<<"table">>)
    /\ storage.days[UserA] = stringify(<<1>>)
    /\ storage.words[UserB] = stringify(<<"river">>)

\* no element occurs twice in the list
NoDuplicates(list) == Cardinality(Range(list)) = Len(list)

\* C35: the stored records having no duplicates at the start, the known-words
\* list and the completed-days list never hold an element twice, in memory
\* or in the store, so the counts the dashboard shows (knownWords.length,
\* completedDays.length) are the sizes of the sets.
C35_NoDuplicates ==
    /\ NoDuplicates(knownWords)
    /\ NoDuplicates(completedDays)
    /\ \A name \in Users :
          /\ NoDuplicates(savedOrEmpty(storage.words[name]))
          /\ NoDuplicates(savedOrEmpty(storage.days[name]))

\* back on the dashboard after two words were marked known and a day ticked
C35_Witness ==
    /\ currentView = "dashboard"
    /\ user = UserA
    /\ Len(knownWords) = 2
    /\ Len(completedDays) = 1
    /\ storage.words[UserA] = stringify(knownWords)


\* C36: running an activity leaves the static vocabulary as the data module
\* defines it: the real-word list and the non-word list keep their elements
\* and their order, so the full 'general' flashcard deck keeps its order
\* across any Real-Word session.
C36_VocabularyUnchanged ==
    /\ realWords = RealWordList
    /\ fakeWords = FakeWordList
    /\ FullDeck("general") = RealWordList

====
